---- MODULE Spec2Model ----
(***************************************************************************)
(* Zone and SimRobot of the simulator core (src/engine/objects/Zone.ts,    *)
(* src/engine/objects/robot/SimRobot.ts): how a declarative spec becomes a  *)
(* body spec, a fixture spec and a mesh, and how update() pulls the body's  *)
(* transform into the mesh.                                                 *)
(*                                                                          *)
(* Numbers are exact: a number is a record [n, d, pi] standing for          *)
(* (n / d) * PI^pi, kept in lowest terms with d > 0, so that x / 2,         *)
(* 0.5, 0.3 and Math.PI / 2 are all values the model can tell apart.        *)
(* An optional field (spec.initialPosition, spec.baseColor, this._body)     *)
(* is a sequence: <<>> when undefined, <<v>> when it holds v.               *)
(***************************************************************************)
EXTENDS Integers, Sequences, FiniteSets, TLC

VARIABLES zone, robot, world, console, lastCall

vars == <<zone, robot, world, console, lastCall>>

----------------------------------------------------------------------------
(* Bounds of the model *)

\* The drivetrain builds between 0 and MaxWheels wheels.
MaxWheels == 2

\* configureFixtureLinks is called at most MaxLinkCalls times in a run.
MaxLinkCalls == 1

----------------------------------------------------------------------------
(* Exact numbers *)

Abs(i) == IF i < 0 THEN -i ELSE i

RECURSIVE Gcd(_, _)
Gcd(a, b) == IF b = 0 THEN a ELSE Gcd(b, a % b)

\* (n / d) * PI^pi in lowest terms; zero has one representation.
Norm(n, d, pi) ==
    IF n = 0 THEN [n |-> 0, d |-> 1, pi |-> 0]
    ELSE LET s == IF d < 0 THEN -1 ELSE 1
             g == Gcd(Abs(n), Abs(d))
         IN  [n |-> (s * n) \div g, d |-> (s * d) \div g, pi |-> pi]

Num(i) == Norm(i, 1, 0)

Rat(n, d) == Norm(n, d, 0)

\* JavaScript's unary minus.
Neg(a) == Norm(-a.n, a.d, a.pi)

\* JavaScript's a / k for a non-zero integer k.
DivInt(a, k) == Norm(a.n, a.d * k, a.pi)

\* JavaScript's a + b, used here on plain rationals only.
Plus(a, b) == Norm(a.n * b.d + b.n * a.d, a.d * b.d, a.pi)

\* Math.PI
MathPI == [n |-> 1, d |-> 1, pi |-> 1]

Zero == Num(0)

----------------------------------------------------------------------------
(* Optional values *)

None == <<>>

Some(v) == <<v>>

IsDefined(o) == o # <<>>

Get(o) == o[1]

----------------------------------------------------------------------------
(* Vectors *)

\* planck's Vec2 / the engine's Vector2d
Vec2(x, y) == [x |-> x, y |-> y]

\* THREE.Vector3, the type of mesh.position and (as Euler angles) mesh.rotation
Vec3(x, y, z) == [x |-> x, y |-> y, z |-> z]

----------------------------------------------------------------------------
(* The inputs: the specs a scene builder hands to the constructors *)

\* Positions used as initial positions and as places a body can be moved to.
\* x and y differ in the non-zero ones, so that swapping them is visible.
Positions == {Vec2(Num(0), Num(0)), Vec2(Num(1), Num(2)), Vec2(Num(-2), Num(1))}

InitialPositions == {None, Some(Vec2(Num(1), Num(2)))}

ZoneColors == {None, Some(255)}

ZoneOpacities == {None, Some(Rat(1, 2))}

RectangleZones == {[xLength |-> Num(4), zLength |-> Num(2)],
                   [xLength |-> Num(3), zLength |-> Num(1)]}

EllipseZones == {[xRadius |-> Num(2), zRadius |-> Num(1)]}

PolygonZones == {[points |-> <<Vec2(Num(0), Num(0)), Vec2(Num(2), Num(0)),
                               Vec2(Num(0), Num(1))>>]}

\* At most one shape variant is present; the last line is the spec with none.
ZoneShapes ==
    {[rectangleZone |-> Some(r), ellipseZone |-> None, polygonZone |-> None] :
        r \in RectangleZones}
    \cup {[rectangleZone |-> None, ellipseZone |-> Some(e), polygonZone |-> None] :
        e \in EllipseZones}
    \cup {[rectangleZone |-> None, ellipseZone |-> None, polygonZone |-> Some(p)] :
        p \in PolygonZones}
    \cup {[rectangleZone |-> None, ellipseZone |-> None, polygonZone |-> None]}

\* IZoneSpec
ZoneSpecs ==
    {[zoneId |-> "zone-a", baseColor |-> c, opacity |-> o, initialPosition |-> ip,
      rectangleZone |-> sh.rectangleZone, ellipseZone |-> sh.ellipseZone,
      polygonZone |-> sh.polygonZone] :
        c \in ZoneColors, o \in ZoneOpacities, ip \in InitialPositions,
        sh \in ZoneShapes}

\* Arguments of setColor and setOpacity.
ColorArgs == {65535}

OpacityArgs == {Rat(1, 4)}

\* Arguments of update(ms); neither update reads it.
DeltaTimes == {16, 33}

----------------------------------------------------------------------------
(* Handles: which object a body belongs to *)

ZoneGuid == [kind |-> "zone", index |-> 0]

RobotGuid == [kind |-> "robot", index |-> 0]

WheelGuid(i) == [kind |-> "wheel", index |-> i]

----------------------------------------------------------------------------
(* Zone *)

\* planck's Box(hx, hy): a rectangle given by its half-extents.
Box(hx, hy) == [type |-> "Box", hx |-> hx, hy |-> hy]

\* A box as wide and as deep as the whole rectangle.
RectangleFixture_FullExtents(r) == Box(r.xLength, r.zLength)

\* new Box(spec.rectangleZone.xLength / 2, spec.rectangleZone.zLength / 2)
RectangleFixture(r) == Box(DivInt(r.xLength, 2), DivInt(r.zLength, 2))

\* new Box(spec.ellipseZone.xRadius, spec.ellipseZone.zRadius)
EllipseFixture(e) == Box(e.xRadius, e.zRadius)

\* new THREE.Mesh(geometry, material): at the origin, not rotated.
NewMesh(geometry, material) ==
    [geometry |-> geometry, material |-> material,
     position |-> Vec3(Zero, Zero, Zero), rotation |-> Vec3(Zero, Zero, Zero)]

\* new THREE.MeshBasicMaterial(materialSpecs) of Zone's constructor: color and
\* opacity are set only when the spec defines them; THREE's defaults are white
\* (0xffffff) and 1.
ZoneMaterial(spec) ==
    [type |-> "MeshBasicMaterial", side |-> "DoubleSide", transparent |-> TRUE,
     color |-> IF IsDefined(spec.baseColor) THEN Get(spec.baseColor) ELSE 16777215,
     opacity |-> IF IsDefined(spec.opacity) THEN Get(spec.opacity) ELSE Num(1)]

\* const initialPosition = {x: 0, y: 0}, overwritten from spec.initialPosition.
ZoneInitialPosition(spec) ==
    IF IsDefined(spec.initialPosition)
    THEN Vec2(Get(spec.initialPosition).x, Get(spec.initialPosition).y)
    ELSE Vec2(Zero, Zero)

\* The if / else-if chain on the shape variant: the mesh and the fixture shape,
\* each undefined when no branch assigns it, and what console.warn printed.
ZoneShape(spec) ==
    LET ip == ZoneInitialPosition(spec)
        material == ZoneMaterial(spec)
    IN  IF IsDefined(spec.rectangleZone) THEN
            LET r == Get(spec.rectangleZone)
            IN  [zoneMesh |-> Some(NewMesh([type |-> "PlaneGeometry",
                                            width |-> r.xLength,
                                            height |-> r.zLength], material)),
                 fixtureShape |-> Some(RectangleFixture(r)),
                 warnings |-> <<>>]
        ELSE IF IsDefined(spec.ellipseZone) THEN
            LET xRadius == Get(spec.ellipseZone).xRadius
                yRadius == Get(spec.ellipseZone).zRadius
            IN  [zoneMesh |-> Some(NewMesh([type |-> "ShapeBufferGeometry",
                                            shape |-> [kind |-> "ellipse",
                                                       aX |-> ip.x, aY |-> ip.y,
                                                       xRadius |-> xRadius,
                                                       yRadius |-> yRadius]],
                                           material)),
                 fixtureShape |-> Some(EllipseFixture(Get(spec.ellipseZone))),
                 warnings |-> <<>>]
        ELSE IF IsDefined(spec.polygonZone) THEN
            LET pts == Get(spec.polygonZone).points
                shapePoints == [i \in 1..Len(pts) |-> Vec2(pts[i].x, pts[i].y)]
                fixturePoints == [i \in 1..Len(pts) |-> Vec2(pts[i].x, pts[i].y)]
            IN  [zoneMesh |-> Some(NewMesh([type |-> "ShapeBufferGeometry",
                                            shape |-> [kind |-> "points",
                                                       points |-> shapePoints]],
                                           material)),
                 fixtureShape |-> Some([type |-> "Polygon",
                                        points |-> fixturePoints]),
                 warnings |-> <<>>]
        ELSE [zoneMesh |-> None, fixtureShape |-> None,
              warnings |-> <<"Some type of zone must be specified">>]

\* zoneMesh.position.y = 0; .x = initialPosition.x; .z = initialPosition.y;
\* zoneMesh.rotation.x = Math.PI / 2.
ZonePlaceMesh(m, ip) ==
    [m EXCEPT !.position = Vec3(ip.x, Zero, ip.y),
              !.rotation = Vec3(DivInt(MathPI, 2), m.rotation.y, m.rotation.z)]

\* this._bodySpecs of Zone
ZoneBodySpecs(ip) ==
    [type |-> "static", position |-> Vec2(ip.x, ip.y), angle |-> Zero]

\* A zone whose fixture collides like a solid.
ZoneFixtureSpecs_Solid(spec, fixtureShape) ==
    [shape |-> fixtureShape, isSensor |-> FALSE,
     userData |-> [selfGuid |-> ZoneGuid, type |-> "zone",
                   zone |-> [id |-> spec.zoneId, color |-> spec.baseColor]]]

\* this._fixtureSpecs of Zone
ZoneFixtureSpecs(spec, fixtureShape) ==
    [shape |-> fixtureShape, isSensor |-> TRUE,
     userData |-> [selfGuid |-> ZoneGuid, type |-> "zone",
                   zone |-> [id |-> spec.zoneId, color |-> spec.baseColor]]]

\* new Zone(spec). With no shape variant zoneMesh is undefined when line 112
\* writes zoneMesh.position.y, which is a TypeError: the constructor throws
\* after the warning and the caller gets no object.
ZoneConstructor(spec) ==
    LET ip == ZoneInitialPosition(spec)
        sh == ZoneShape(spec)
    IN  IF ~IsDefined(sh.zoneMesh)
        THEN [threw |-> TRUE, warnings |-> sh.warnings, obj |-> None]
        ELSE [threw |-> FALSE, warnings |-> sh.warnings,
              obj |-> Some([type |-> "Zone", guid |-> ZoneGuid,
                            zoneId |-> spec.zoneId,
                            mesh |-> Some(ZonePlaceMesh(Get(sh.zoneMesh), ip)),
                            body |-> None,
                            bodySpecs |-> ZoneBodySpecs(ip),
                            fixtureSpecs |-> ZoneFixtureSpecs(spec, sh.fixtureShape)])]

\* Zone.getBodySpecs()
ZoneGetBodySpecs(z) == z.bodySpecs

\* Zone.getFixtureDef()
ZoneGetFixtureDef(z) == z.fixtureSpecs

----------------------------------------------------------------------------
(* The physics world, as far as the objects use it *)

\* world.createBody(bodySpecs): the body starts at the spec's position and
\* angle; drive is the force / velocity a drivetrain has commanded on it.
CreateBody(bodySpecs) ==
    [type |-> bodySpecs.type, position |-> bodySpecs.position,
     angle |-> bodySpecs.angle, drive |-> Zero]

\* body.getWorldCenter(): every fixture built here is centred on its body's
\* origin (and a static body has no mass), so the centre is the position.
GetWorldCenter(body) == Vec2(body.position.x, body.position.y)

\* body.getAngle()
GetAngle(body) == body.angle

\* Zone.update with the two axes exchanged: mesh x from the centre's y.
ZoneUpdate_AxesSwapped(z, w, ms) ==
    IF ~IsDefined(z.body)
    THEN [threw |-> TRUE, obj |-> z]
    ELSE LET bodyCenter == GetWorldCenter(w.bodies[Get(z.body)])
             m == Get(z.mesh)
         IN  [threw |-> FALSE,
              obj |-> [z EXCEPT !.mesh =
                          Some([m EXCEPT !.position =
                                   Vec3(bodyCenter.y, m.position.y, bodyCenter.x)])]]

\* Zone.update(ms): reads this._body, which is undefined (a TypeError) until
\* the scene has created the body; otherwise writes mesh x and z only.
ZoneUpdate(z, w, ms) ==
    IF ~IsDefined(z.body)
    THEN [threw |-> TRUE, obj |-> z]
    ELSE LET bodyCenter == GetWorldCenter(w.bodies[Get(z.body)])
             m == Get(z.mesh)
         IN  [threw |-> FALSE,
              obj |-> [z EXCEPT !.mesh =
                          Some([m EXCEPT !.position =
                                   Vec3(bodyCenter.x, m.position.y, bodyCenter.y)])]]

\* Zone.setColor(color): material.color.set(color)
ZoneSetColor(z, color) ==
    [z EXCEPT !.mesh = Some([Get(z.mesh) EXCEPT !.material.color = color])]

\* Zone.setOpacity(opacity): material.opacity = opacity
ZoneSetOpacity(z, opacity) ==
    [z EXCEPT !.mesh = Some([Get(z.mesh) EXCEPT !.material.opacity = opacity])]

----------------------------------------------------------------------------
(* SimRobot *)

ROBOT_DEFAULT_COLOR == 65280

\* The chassis of a robot spec: one with neither color nor initial position,
\* one with both.
RobotChassis ==
    {[dimensions |-> [x |-> Num(2), y |-> Num(1), z |-> Num(3)],
      baseColor |-> None, initialPosition |-> None],
     [dimensions |-> [x |-> Num(3), y |-> Num(2), z |-> Num(1)],
      baseColor |-> Some(255), initialPosition |-> Some(Vec2(Num(2), Num(-1)))]}

\* IRobotSpec; the drivetrain field is what the drivetrain alone reads.
RobotSpecs ==
    {[dimensions |-> ch.dimensions, baseColor |-> ch.baseColor,
      initialPosition |-> ch.initialPosition,
      drivetrain |-> [numWheels |-> n, yOffset |-> Rat(1, 2)]] :
        ch \in RobotChassis, n \in 0..MaxWheels}

\* Arguments of setMotorPower: channel 0 and a channel no drivetrain has.
ChannelArgs == {0, MaxWheels}

PowerArgs == {Rat(1, 2)}

\* Poses a physics step can leave the chassis in.
StepPoses == {[position |-> Vec2(Num(1), Num(2)), angle |-> Rat(-3, 4)],
              [position |-> Vec2(Num(-2), Num(1)), angle |-> Zero]}

\* Where the drivetrain mounts wheel i, relative to the chassis.
WheelMount(i) == Vec2(Num(i), Num(-1))

\* A wheel object of the drivetrain: a SimObject with its own mesh and body.
NewWheel(i, robotPos) ==
    [guid |-> WheelGuid(i),
     mesh |-> Some(NewMesh([type |-> "CylinderGeometry"],
                           [type |-> "MeshStandardMaterial"])),
     body |-> None,
     bodySpecs |-> [type |-> "dynamic",
                    position |-> Vec2(Plus(robotPos.x, WheelMount(i).x),
                                      Plus(robotPos.y, WheelMount(i).y)),
                    angle |-> Zero]]

\* const bodyPos = new Vec2(0, 0), overwritten from spec.initialPosition.
RobotBodyPos(spec) ==
    IF IsDefined(spec.initialPosition)
    THEN Vec2(Get(spec.initialPosition).x, Get(spec.initialPosition).y)
    ELSE Vec2(Zero, Zero)

\* new SimRobotDrivetrain(spec): the wheel objects in order, the mounting
\* offset, and one motor channel per wheel, all commanded to zero.
NewDrivetrain(spec) ==
    [wheelObjects |-> [i \in 1..spec.drivetrain.numWheels |-> WheelGuid(i)],
     yOffset |-> spec.drivetrain.yOffset,
     motorPower |-> [ch \in 0..(spec.drivetrain.numWheels - 1) |-> Zero]]

\* The two damping coefficients exchanged.
RobotBodySpecs_DampingSwapped(bodyPos) ==
    [type |-> "dynamic", position |-> bodyPos, angle |-> Zero,
     linearDamping |-> Rat(3, 10), bullet |-> TRUE, angularDamping |-> Rat(5, 10)]

\* this._bodySpecs of SimRobot
RobotBodySpecs(bodyPos) ==
    [type |-> "dynamic", position |-> bodyPos, angle |-> Zero,
     linearDamping |-> Rat(5, 10), bullet |-> TRUE, angularDamping |-> Rat(3, 10)]

\* The chassis box taken from dimensions x and y instead of x and z.
RobotFixtureSpecs_UsesY(spec) ==
    [shape |-> Box(DivInt(spec.dimensions.x, 2), DivInt(spec.dimensions.y, 2)),
     density |-> Num(1), isSensor |-> FALSE,
     friction |-> Rat(3, 10), restitution |-> Rat(4, 10)]

\* this._fixtureSpecs of SimRobot
RobotFixtureSpecs(spec) ==
    [shape |-> Box(DivInt(spec.dimensions.x, 2), DivInt(spec.dimensions.z, 2)),
     density |-> Num(1), isSensor |-> FALSE,
     friction |-> Rat(3, 10), restitution |-> Rat(4, 10)]

\* The chassis mesh: a box of the full dimensions in the spec's color, or in
\* ROBOT_DEFAULT_COLOR when the spec has none.
RobotBodyMesh(spec) ==
    LET color == IF IsDefined(spec.baseColor) THEN Get(spec.baseColor)
                 ELSE ROBOT_DEFAULT_COLOR
    IN  NewMesh([type |-> "BoxGeometry", width |-> spec.dimensions.x,
                 height |-> spec.dimensions.y, depth |-> spec.dimensions.z],
                [type |-> "MeshStandardMaterial", color |-> color])

\* SimObject.addChild(child): appended to the ownership list.
AddChild(r, child) == [r EXCEPT !.children = Append(r.children, child)]

\* this._drivetrain.wheelObjects.forEach((wheel) => this.addChild(wheel))
RECURSIVE AddWheelsAsChildren(_, _)
AddWheelsAsChildren(r, wheelObjects) ==
    IF wheelObjects = <<>> THEN r
    ELSE AddWheelsAsChildren(AddChild(r, Head(wheelObjects)), Tail(wheelObjects))

\* mesh.translateY(distance) on a mesh that is not rotated
TranslateY(m, distance) == [m EXCEPT !.position.y = Plus(m.position.y, distance)]

\* new SimRobot(spec). wheels is the heap of wheel objects, which both
\* drivetrain.wheelObjects and children refer to by guid.
RobotConstructor(spec) ==
    LET bodyPos == RobotBodyPos(spec)
        drivetrain == NewDrivetrain(spec)
        r0 == [type |-> "SimRobot", guid |-> RobotGuid,
               mesh |-> Some(RobotBodyMesh(spec)),
               body |-> None,
               bodySpecs |-> RobotBodySpecs(bodyPos),
               fixtureSpecs |-> RobotFixtureSpecs(spec),
               drivetrain |-> drivetrain,
               children |-> <<>>,
               wheels |-> [i \in 1..spec.drivetrain.numWheels |->
                              NewWheel(i, bodyPos)]]
        r1 == AddWheelsAsChildren(r0, drivetrain.wheelObjects)
    IN  [r1 EXCEPT !.mesh = Some(TranslateY(Get(r1.mesh), Neg(drivetrain.yOffset)))]

\* SimRobot.getBodySpecs()
RobotGetBodySpecs(r) == r.bodySpecs

\* SimRobot.getFixtureDef()
RobotGetFixtureDef(r) == r.fixtureSpecs

----------------------------------------------------------------------------
(* SimRobot.update, step by step.  A call in progress is a record          *)
(* [obj, w, trace, threw]: the robot, the world, the steps done so far in  *)
(* this call, and whether a TypeError has ended the call.                  *)

TraceStep(name, i) == [step |-> name, index |-> i]

\* SimRobotDrivetrain.update(): the commanded power of each wheel's channel
\* becomes the drive on that wheel's body; positions and angles are left to
\* the physics step.
DrivetrainUpdate(c) ==
    LET dt == c.obj.drivetrain
        driven(g) == /\ g.kind = "wheel"
                     /\ g.index \in DOMAIN c.obj.wheels
                     /\ IsDefined(c.obj.wheels[g.index].body)
    IN  [c EXCEPT !.w.bodies = [g \in DOMAIN c.w.bodies |->
                                   IF driven(g)
                                   THEN [c.w.bodies[g] EXCEPT
                                            !.drive = dt.motorPower[g.index - 1]]
                                   ELSE c.w.bodies[g]],
                  !.trace = Append(c.trace, TraceStep("drivetrain.update", 0))]

\* childObj.update(ms) of a wheel: the SimObject contract, mesh from body.
\* A wheel without a body yet cannot read it: TypeError.
ChildUpdate(c, child, ms) ==
    LET wheel == c.obj.wheels[child.index]
    IN  IF ~IsDefined(wheel.body)
        THEN [c EXCEPT !.threw = TRUE,
                       !.trace = Append(c.trace,
                                        TraceStep("child.update", child.index))]
        ELSE LET body == c.w.bodies[Get(wheel.body)]
                 bodyCenter == GetWorldCenter(body)
                 m == Get(wheel.mesh)
             IN  [c EXCEPT
                     !.obj.wheels[child.index].mesh =
                         Some([m EXCEPT
                                  !.position = Vec3(bodyCenter.x, m.position.y,
                                                    bodyCenter.y),
                                  !.rotation.y = Neg(GetAngle(body))]),
                     !.trace = Append(c.trace,
                                      TraceStep("child.update", child.index))]

\* this._children.forEach((childObj) => childObj.update(ms)): in list order,
\* ended by the first call that throws.
RECURSIVE ForEachChildUpdate(_, _, _)
ForEachChildUpdate(c, children, ms) ==
    IF children = <<>> \/ c.threw THEN c
    ELSE ForEachChildUpdate(ChildUpdate(c, Head(children), ms), Tail(children), ms)

\* The chassis mesh turned by -angle on every update (as mesh.rotateY would)
\* instead of being set to -angle.
RobotSyncMesh_TurnsBy(c) ==
    IF c.threw THEN c
    ELSE IF ~IsDefined(c.obj.body) THEN [c EXCEPT !.threw = TRUE]
    ELSE LET body == c.w.bodies[Get(c.obj.body)]
             bodyCenter == GetWorldCenter(body)
             m == Get(c.obj.mesh)
         IN  [c EXCEPT
                 !.obj.mesh = Some([m EXCEPT
                                       !.position = Vec3(bodyCenter.x, m.position.y,
                                                         bodyCenter.y),
                                       !.rotation.y = Plus(m.rotation.y,
                                                           Neg(GetAngle(body)))]),
                 !.trace = Append(c.trace, TraceStep("mesh.write", 0))]

\* The last four lines of SimRobot.update: chassis mesh x, z and yaw from the
\* chassis body.
RobotSyncMesh(c) ==
    IF c.threw THEN c
    ELSE IF ~IsDefined(c.obj.body) THEN [c EXCEPT !.threw = TRUE]
    ELSE LET body == c.w.bodies[Get(c.obj.body)]
             bodyCenter == GetWorldCenter(body)
             m == Get(c.obj.mesh)
         IN  [c EXCEPT
                 !.obj.mesh = Some([m EXCEPT
                                       !.position = Vec3(bodyCenter.x, m.position.y,
                                                         bodyCenter.y),
                                       !.rotation.y = Neg(GetAngle(body))]),
                 !.trace = Append(c.trace, TraceStep("mesh.write", 0))]

\* SimRobot.update with the children updated before the drivetrain.
RobotUpdate_ChildrenFirst(r, w, ms) ==
    LET c0 == [obj |-> r, w |-> w, trace |-> <<>>, threw |-> FALSE]
        c1 == ForEachChildUpdate(c0, c0.obj.children, ms)
        c2 == IF c1.threw THEN c1 ELSE DrivetrainUpdate(c1)
    IN  RobotSyncMesh(c2)

\* SimRobot.update(ms)
RobotUpdate(r, w, ms) ==
    LET c0 == [obj |-> r, w |-> w, trace |-> <<>>, threw |-> FALSE]
        c1 == DrivetrainUpdate(c0)
        c2 == ForEachChildUpdate(c1, c1.obj.children, ms)
    IN  RobotSyncMesh(c2)

\* The PrismaticJoint that configureFixtureLinks builds for one wheel.
NewPrismaticJoint(bodyA, bodyB, anchor) ==
    [type |-> "PrismaticJoint", enableLimit |-> TRUE,
     lowerTranslation |-> Zero, upperTranslation |-> Zero,
     bodyA |-> bodyA, bodyB |-> bodyB, anchor |-> anchor,
     axis |-> Vec2(Num(1), Num(0))]

\* One iteration with the joint anchored at the chassis's centre instead of
\* the wheel's.
LinkWheel_AnchoredAtChassis(c, wheelRef) ==
    LET wheel == c.obj.wheels[wheelRef.index]
    IN  IF ~IsDefined(wheel.body) \/ ~IsDefined(c.obj.body)
        THEN [c EXCEPT !.threw = TRUE]
        ELSE [c EXCEPT !.w.joints =
                 Append(c.w.joints,
                        NewPrismaticJoint(Get(c.obj.body), Get(wheel.body),
                            GetWorldCenter(c.w.bodies[Get(c.obj.body)])))]

\* One iteration of configureFixtureLinks. wheel.body.getWorldCenter() is a
\* TypeError when the wheel has no body, and the joint's constructor reads
\* its first body, a TypeError when the chassis has none.
LinkWheel(c, wheelRef) ==
    LET wheel == c.obj.wheels[wheelRef.index]
    IN  IF ~IsDefined(wheel.body) \/ ~IsDefined(c.obj.body)
        THEN [c EXCEPT !.threw = TRUE]
        ELSE [c EXCEPT !.w.joints =
                 Append(c.w.joints,
                        NewPrismaticJoint(Get(c.obj.body), Get(wheel.body),
                            GetWorldCenter(c.w.bodies[Get(wheel.body)])))]

\* this._drivetrain.wheelObjects.forEach(...): joints made before a throw stay.
RECURSIVE ForEachLinkWheel(_, _)
ForEachLinkWheel(c, wheelObjects) ==
    IF wheelObjects = <<>> \/ c.threw THEN c
    ELSE ForEachLinkWheel(LinkWheel(c, Head(wheelObjects)), Tail(wheelObjects))

\* SimRobot.configureFixtureLinks(world)
ConfigureFixtureLinks(r, w) ==
    ForEachLinkWheel([obj |-> r, w |-> w, trace |-> <<>>, threw |-> FALSE],
                     r.drivetrain.wheelObjects)

\* SimRobotDrivetrain.setMotorPower(channel, value): the latest value of a
\* channel the drivetrain has; other channels are ignored.
DrivetrainSetMotorPower(dt, channel, value) ==
    IF channel \in DOMAIN dt.motorPower
    THEN [dt EXCEPT !.motorPower[channel] = value]
    ELSE dt

\* SimRobot.setMotorPower(channel, value)
RobotSetMotorPower(r, channel, value) ==
    [r EXCEPT !.drivetrain = DrivetrainSetMotorPower(r.drivetrain, channel, value)]

----------------------------------------------------------------------------
(* The state machine.  A run builds one object, a Zone or a SimRobot (the  *)
(* two share no state), lets the scene create its bodies, and then calls   *)
(* the object's methods between physics steps, in any order.               *)

\* What the scene holds of an object: the spec it passed to the constructor,
\* how the constructor ended, and the object it returned, if any.
NotConstructed == [ctor |-> "notCalled", spec |-> None, obj |-> None]

\* The record of the latest call: what was called, whether it threw, the
\* steps it took (SimRobot.update only), and whether it is an update that
\* directly follows an update of the same object.
Call(op, threw, trace) ==
    [op |-> op, threw |-> threw, trace |-> trace,
     again |-> op \in {"Zone.update", "SimRobot.update"} /\ lastCall.op = op]

SceneIsEmpty == zone.ctor = "notCalled" /\ robot.ctor = "notCalled"

HasZone == IsDefined(zone.obj)

HasRobot == IsDefined(robot.obj)

Init ==
    /\ zone = NotConstructed
    /\ robot = NotConstructed
    /\ world = [bodies |-> <<>>, joints |-> <<>>, linkCalls |-> 0]
    /\ console = <<>>
    /\ lastCall = [op |-> "none", threw |-> FALSE, trace |-> <<>>, again |-> FALSE]

\* makeZone(spec)
MakeZone(spec) ==
    /\ SceneIsEmpty
    /\ LET res == ZoneConstructor(spec)
       IN  /\ zone' = [ctor |-> IF res.threw THEN "threw" ELSE "returned",
                       spec |-> Some(spec), obj |-> res.obj]
           /\ console' = console \o res.warnings
           /\ lastCall' = Call("makeZone", res.threw, <<>>)
    /\ UNCHANGED <<robot, world>>

\* The scene registers the zone: a body from getBodySpecs(), a fixture from
\* getFixtureDef(), and the body handed back to the object.
AddZoneToWorld ==
    /\ HasZone
    /\ ~IsDefined(Get(zone.obj).body)
    /\ LET z == Get(zone.obj)
       IN  /\ world' = [world EXCEPT !.bodies =
                           (z.guid :> CreateBody(ZoneGetBodySpecs(z))) @@ world.bodies]
           /\ zone' = [zone EXCEPT !.obj = Some([z EXCEPT !.body = Some(z.guid)])]
    /\ lastCall' = Call("scene", FALSE, <<>>)
    /\ UNCHANGED <<robot, console>>

\* The scene moves the zone's static body (the only way a zone moves).
MoveZoneBody(p) ==
    /\ HasZone
    /\ IsDefined(Get(zone.obj).body)
    /\ world' = [world EXCEPT !.bodies[Get(Get(zone.obj).body)].position = p]
    /\ lastCall' = Call("scene", FALSE, <<>>)
    /\ UNCHANGED <<zone, robot, console>>

CallZoneUpdate(ms) ==
    /\ HasZone
    /\ LET res == ZoneUpdate(Get(zone.obj), world, ms)
       IN  /\ zone' = [zone EXCEPT !.obj = Some(res.obj)]
           /\ lastCall' = Call("Zone.update", res.threw, <<>>)
    /\ UNCHANGED <<robot, world, console>>

CallZoneSetColor(color) ==
    /\ HasZone
    /\ zone' = [zone EXCEPT !.obj = Some(ZoneSetColor(Get(zone.obj), color))]
    /\ lastCall' = Call("Zone.setColor", FALSE, <<>>)
    /\ UNCHANGED <<robot, world, console>>

CallZoneSetOpacity(opacity) ==
    /\ HasZone
    /\ zone' = [zone EXCEPT !.obj = Some(ZoneSetOpacity(Get(zone.obj), opacity))]
    /\ lastCall' = Call("Zone.setOpacity", FALSE, <<>>)
    /\ UNCHANGED <<robot, world, console>>

\* new SimRobot(spec)
MakeRobot(spec) ==
    /\ SceneIsEmpty
    /\ robot' = [ctor |-> "returned", spec |-> Some(spec),
                 obj |-> Some(RobotConstructor(spec))]
    /\ lastCall' = Call("new SimRobot", FALSE, <<>>)
    /\ UNCHANGED <<zone, world, console>>

\* The scene registers the chassis.
AddRobotToWorld ==
    /\ HasRobot
    /\ ~IsDefined(Get(robot.obj).body)
    /\ LET r == Get(robot.obj)
       IN  /\ world' = [world EXCEPT !.bodies =
                           (r.guid :> CreateBody(RobotGetBodySpecs(r))) @@ world.bodies]
           /\ robot' = [robot EXCEPT !.obj = Some([r EXCEPT !.body = Some(r.guid)])]
    /\ lastCall' = Call("scene", FALSE, <<>>)
    /\ UNCHANGED <<zone, console>>

\* The scene registers one wheel (a child of the robot): parent before
\* children, children in list order.
AddWheelToWorld(i) ==
    /\ HasRobot
    /\ i \in DOMAIN Get(robot.obj).wheels
    /\ IsDefined(Get(robot.obj).body)
    /\ \A j \in 1..(i - 1) : IsDefined(Get(robot.obj).wheels[j].body)
    /\ ~IsDefined(Get(robot.obj).wheels[i].body)
    /\ LET r == Get(robot.obj)
           wheel == r.wheels[i]
       IN  /\ world' = [world EXCEPT !.bodies =
                           (wheel.guid :> CreateBody(wheel.bodySpecs)) @@ world.bodies]
           /\ robot' = [robot EXCEPT !.obj =
                           Some([r EXCEPT !.wheels[i].body = Some(wheel.guid)])]
    /\ lastCall' = Call("scene", FALSE, <<>>)
    /\ UNCHANGED <<zone, console>>

\* One step of the physics world: the chassis goes to some pose and each
\* wheel to its mount beside it; static bodies stay. The poses are whatever
\* the solver computes, so they are chosen freely.
WorldStep(p, a) ==
    /\ DOMAIN world.bodies # {}
    /\ world' = [world EXCEPT !.bodies = [g \in DOMAIN world.bodies |->
          IF g.kind = "robot"
          THEN [world.bodies[g] EXCEPT !.position = p, !.angle = a]
          ELSE IF g.kind = "wheel"
          THEN [world.bodies[g] EXCEPT
                   !.position = Vec2(Plus(p.x, WheelMount(g.index).x),
                                     Plus(p.y, WheelMount(g.index).y)),
                   !.angle = a]
          ELSE world.bodies[g]]]
    /\ lastCall' = Call("World.step", FALSE, <<>>)
    /\ UNCHANGED <<zone, robot, console>>

CallRobotUpdate(ms) ==
    /\ HasRobot
    /\ LET c == RobotUpdate(Get(robot.obj), world, ms)
       IN  /\ robot' = [robot EXCEPT !.obj = Some(c.obj)]
           /\ world' = c.w
           /\ lastCall' = Call("SimRobot.update", c.threw, c.trace)
    /\ UNCHANGED <<zone, console>>

CallSetMotorPower(channel, value) ==
    /\ HasRobot
    /\ robot' = [robot EXCEPT !.obj =
                    Some(RobotSetMotorPower(Get(robot.obj), channel, value))]
    /\ lastCall' = Call("SimRobot.setMotorPower", FALSE, <<>>)
    /\ UNCHANGED <<zone, world, console>>

CallConfigureFixtureLinks ==
    /\ HasRobot
    /\ world.linkCalls < MaxLinkCalls
    /\ LET c == ConfigureFixtureLinks(Get(robot.obj), world)
       IN  /\ robot' = [robot EXCEPT !.obj = Some(c.obj)]
           /\ world' = [c.w EXCEPT !.linkCalls = world.linkCalls + 1]
           /\ lastCall' = Call("SimRobot.configureFixtureLinks", c.threw, <<>>)
    /\ UNCHANGED <<zone, console>>

Next ==
    \/ \E spec \in ZoneSpecs : MakeZone(spec)
    \/ AddZoneToWorld
    \/ \E p \in Positions : MoveZoneBody(p)
    \/ \E ms \in DeltaTimes : CallZoneUpdate(ms)
    \/ \E color \in ColorArgs : CallZoneSetColor(color)
    \/ \E opacity \in OpacityArgs : CallZoneSetOpacity(opacity)
    \/ \E spec \in RobotSpecs : MakeRobot(spec)
    \/ AddRobotToWorld
    \/ \E i \in 1..MaxWheels : AddWheelToWorld(i)
    \/ \E pose \in StepPoses : WorldStep(pose.position, pose.angle)
    \/ \E ms \in DeltaTimes : CallRobotUpdate(ms)
    \/ \E channel \in ChannelArgs, value \in PowerArgs :
          CallSetMotorPower(channel, value)
    \/ CallConfigureFixtureLinks

Spec == Init /\ [][Next]_vars

----------------------------------------------------------------------------
(* Where a mesh shows its geometry in the world *)

\* a * k for an integer k
Times(a, k) == Norm(a.n * k, a.d, a.pi)

\* The number of quarter turns in an angle that is a multiple of PI / 2.
QuarterTurns(angle) ==
    IF angle.pi = 0 THEN 0 ELSE (angle.n * (2 \div angle.d)) % 4

\* cos and sin of such an angle
CosQuarter(angle) == <<1, 0, -1, 0>>[QuarterTurns(angle) + 1]

SinQuarter(angle) == <<0, 1, 0, -1>>[QuarterTurns(angle) + 1]

\* THREE's rotation about the x axis: (x, y, z) goes to
\* (x, y cos - z sin, y sin + z cos).
RotateX(v, angle) ==
    Vec3(v.x,
         Plus(Times(v.y, CosQuarter(angle)), Neg(Times(v.z, SinQuarter(angle)))),
         Plus(Times(v.y, SinQuarter(angle)), Times(v.z, CosQuarter(angle))))

\* The centre of a geometry in the mesh's own coordinates: a PlaneGeometry is
\* centred on the origin, Shape.ellipse(aX, aY, ...) on (aX, aY), and a shape
\* made of points has the origin of its points' frame as its reference.
GeometryCentre(geometry) ==
    IF geometry.type = "ShapeBufferGeometry" /\ geometry.shape.kind = "ellipse"
    THEN Vec3(geometry.shape.aX, geometry.shape.aY, Zero)
    ELSE Vec3(Zero, Zero, Zero)

\* The same point in world coordinates, for a mesh rotated about x only:
\* rotate, then translate by mesh.position.
FootprintCentre(m) ==
    LET r == RotateX(GeometryCentre(m.geometry), m.rotation.x)
    IN  Vec3(Plus(m.position.x, r.x), Plus(m.position.y, r.y),
             Plus(m.position.z, r.z))

----------------------------------------------------------------------------
(* The claims *)

TheZone == Get(zone.obj)

TheZoneSpec == Get(zone.spec)

TheRobot == Get(robot.obj)

TheRobotSpec == Get(robot.spec)

HalfPi == [n |-> 1, d |-> 2, pi |-> 1]

\* C1: a Zone built from a spec with exactly one shape variant has a sensor
\* fixture and a static body spec, at construction and after every update,
\* setColor and setOpacity call.
C1_ZoneSensorStatic ==
    HasZone =>
        /\ ZoneGetFixtureDef(TheZone).isSensor = TRUE
        /\ ZoneGetBodySpecs(TheZone).type = "static"

\* A zone of each kind has been registered, moved, updated and recolored.
C1_Witness ==
    /\ HasZone
    /\ IsDefined(TheZoneSpec.polygonZone)
    /\ lastCall.op = "Zone.update" /\ ~lastCall.threw
    /\ Get(TheZone.mesh).material.color = 65535
    /\ Get(TheZone.mesh).material.opacity = Rat(1, 4)
    /\ Get(TheZone.mesh).position.x = Num(-2)

\* C2: a rectangle zone of xLength L and zLength W has a box fixture whose
\* half-extents doubled give L and W, a plane mesh of L by W, and a mesh
\* rotated by PI / 2 about x.
C2_RectangleZone ==
    (HasZone /\ IsDefined(TheZoneSpec.rectangleZone)) =>
        LET L == Get(TheZoneSpec.rectangleZone).xLength
            W == Get(TheZoneSpec.rectangleZone).zLength
            shape == Get(ZoneGetFixtureDef(TheZone).shape)
            m == Get(TheZone.mesh)
        IN  /\ shape.type = "Box"
            /\ Plus(shape.hx, shape.hx) = L
            /\ Plus(shape.hy, shape.hy) = W
            /\ m.geometry = [type |-> "PlaneGeometry", width |-> L, height |-> W]
            /\ m.rotation.x = HalfPi

\* The 3 by 1 rectangle, whose half-extents 3/2 and 1/2 are not integers.
C2_Witness ==
    /\ HasZone
    /\ IsDefined(TheZoneSpec.rectangleZone)
    /\ Get(TheZoneSpec.rectangleZone).xLength = Num(3)
    /\ Get(ZoneGetFixtureDef(TheZone).shape).hx = [n |-> 3, d |-> 2, pi |-> 0]
    /\ lastCall.op = "makeZone"

\* C3: a SimRobot's body spec is dynamic with linearDamping 0.5,
\* angularDamping 0.3 and bullet true, at construction and after every
\* update, setMotorPower and configureFixtureLinks call.
C3_RobotBodySpecs ==
    HasRobot =>
        LET b == RobotGetBodySpecs(TheRobot)
        IN  /\ b.type = "dynamic"
            /\ b.linearDamping = [n |-> 1, d |-> 2, pi |-> 0]
            /\ b.angularDamping = [n |-> 3, d |-> 10, pi |-> 0]
            /\ b.bullet = TRUE

\* A robot that has been linked, commanded and updated.
C3_Witness ==
    /\ HasRobot
    /\ world.linkCalls > 0 /\ Len(world.joints) > 0
    /\ 0 \in DOMAIN TheRobot.drivetrain.motorPower
    /\ TheRobot.drivetrain.motorPower[0] = Rat(1, 2)
    /\ lastCall.op = "SimRobot.update" /\ ~lastCall.threw

\* C4: a SimRobot's body spec is at the spec's initialPosition, or at (0, 0)
\* without one; its fixture is a non-sensor box whose half-extents doubled
\* give dimensions x and z, with density 1, friction 0.3, restitution 0.4.
C4_RobotChassis ==
    HasRobot =>
        LET b == RobotGetBodySpecs(TheRobot)
            f == RobotGetFixtureDef(TheRobot)
            ip == TheRobotSpec.initialPosition
        IN  /\ IsDefined(ip) => b.position = Get(ip)
            /\ ~IsDefined(ip) => b.position = Vec2(Zero, Zero)
            /\ f.isSensor = FALSE
            /\ f.shape.type = "Box"
            /\ Plus(f.shape.hx, f.shape.hx) = TheRobotSpec.dimensions.x
            /\ Plus(f.shape.hy, f.shape.hy) = TheRobotSpec.dimensions.z
            /\ f.density = [n |-> 1, d |-> 1, pi |-> 0]
            /\ f.friction = [n |-> 3, d |-> 10, pi |-> 0]
            /\ f.restitution = [n |-> 2, d |-> 5, pi |-> 0]

\* The robot of dimensions (2, 1, 3) without an initial position: body spec
\* at (0, 0), half-extents (1, 3/2).
C4_Witness ==
    /\ HasRobot
    /\ ~IsDefined(TheRobotSpec.initialPosition)
    /\ TheRobotSpec.dimensions = [x |-> Num(2), y |-> Num(1), z |-> Num(3)]
    /\ RobotGetFixtureDef(TheRobot).shape.hy = [n |-> 3, d |-> 2, pi |-> 0]
    /\ lastCall.op = "new SimRobot"

\* The visual transform of a mesh: its position and its rotation.
MeshTransform(m) == <<m.position, m.rotation>>

\* C5: an update that directly follows an update of the same object, with no
\* physics step or other call in between, leaves the object's mesh position
\* and rotation as the first update left them.
C5_UpdateIdempotent ==
    [][/\ (lastCall.op = "Zone.update" /\ lastCall'.op = "Zone.update"
              /\ lastCall'.again)
          => MeshTransform(Get(Get(zone'.obj).mesh))
                = MeshTransform(Get(TheZone.mesh))
       /\ (lastCall.op = "SimRobot.update" /\ lastCall'.op = "SimRobot.update"
              /\ lastCall'.again)
          => MeshTransform(Get(Get(robot'.obj).mesh))
                = MeshTransform(Get(TheRobot.mesh))]_vars

\* A robot with a motor commanded and a turned chassis, updated twice in a row.
C5_Witness ==
    /\ HasRobot
    /\ lastCall.op = "SimRobot.update" /\ lastCall.again /\ ~lastCall.threw
    /\ 0 \in DOMAIN TheRobot.drivetrain.motorPower
    /\ TheRobot.drivetrain.motorPower[0] = Rat(1, 2)
    /\ Get(TheRobot.mesh).rotation.y = Rat(3, 4)

\* The chassis and every wheel have a body.
AllBodiesExist ==
    /\ HasRobot
    /\ IsDefined(TheRobot.body)
    /\ \A i \in DOMAIN TheRobot.wheels : IsDefined(TheRobot.wheels[i].body)

\* C6: a configureFixtureLinks call made when the chassis and all wheels have
\* bodies does not throw and adds exactly one joint per wheel object, in wheel
\* order: a prismatic joint from the chassis body to that wheel's body,
\* anchored at the wheel body's position at the time of the call, with the
\* limit enabled and both translation limits 0.
C6_OneJointPerWheel ==
    [][(world'.linkCalls = world.linkCalls + 1 /\ AllBodiesExist) =>
          LET n == Len(TheRobot.drivetrain.wheelObjects)
              before == Len(world.joints)
          IN  /\ ~lastCall'.threw
              /\ Len(world'.joints) = before + n
              /\ SubSeq(world'.joints, 1, before) = world.joints
              /\ \A i \in 1..n :
                    LET j == world'.joints[before + i]
                    IN  /\ j.type = "PrismaticJoint"
                        /\ j.bodyA = Get(TheRobot.body)
                        /\ j.bodyB = Get(TheRobot.wheels[i].body)
                        /\ j.anchor = world.bodies[WheelGuid(i)].position
                        /\ j.enableLimit = TRUE
                        /\ j.lowerTranslation = Zero
                        /\ j.upperTranslation = Zero]_vars

\* Two wheels linked after a physics step has moved them: two joints, the
\* first anchored neither where the wheel was created nor at the chassis.
C6_Witness ==
    /\ AllBodiesExist
    /\ lastCall.op = "SimRobot.configureFixtureLinks" /\ ~lastCall.threw
    /\ world.linkCalls = 1
    /\ Len(TheRobot.drivetrain.wheelObjects) = 2
    /\ Len(world.joints) = 2
    /\ world.joints[1].anchor # TheRobot.wheels[1].bodySpecs.position
    /\ world.joints[1].anchor # world.bodies[RobotGuid].position
    /\ world.joints[1].anchor # world.joints[2].anchor

\* C7: constructing a Zone from a spec with no shape variant logs the warning
\* and returns a Zone whose mesh is unset, without raising an error.
C7_NoShapeZoneReturned ==
    (/\ zone.ctor # "notCalled"
     /\ ~IsDefined(TheZoneSpec.rectangleZone)
     /\ ~IsDefined(TheZoneSpec.ellipseZone)
     /\ ~IsDefined(TheZoneSpec.polygonZone))
    => /\ console = <<"Some type of zone must be specified">>
       /\ zone.ctor = "returned"
       /\ HasZone
       /\ ~IsDefined(TheZone.mesh)

\* The zone's mesh shows where its body is.
ZoneSynced ==
    LET m == Get(TheZone.mesh)
        body == world.bodies[Get(TheZone.body)]
    IN  /\ m.position.x = body.position.x
        /\ m.position.z = body.position.y
        /\ m.position.y = Zero

\* The chassis mesh shows where the chassis body is, turned the other way.
RobotSynced ==
    LET m == Get(TheRobot.mesh)
        body == world.bodies[Get(TheRobot.body)]
    IN  /\ m.position.x = body.position.x
        /\ m.position.z = body.position.y
        /\ Plus(m.rotation.y, body.angle) = Zero

\* C8: when an update completes, the mesh's x and z are the body's world
\* centre x and y (the robot's yaw is minus the body's angle, the zone's mesh
\* y is 0), and the call has written neither the object's own body's position
\* and angle nor its body spec nor its fixture spec.
C8_OneWaySync ==
    [][/\ (lastCall'.op = "Zone.update" /\ ~lastCall'.threw) =>
             /\ ZoneSynced'
             /\ world' = world
             /\ ZoneGetBodySpecs(Get(zone'.obj)) = ZoneGetBodySpecs(TheZone)
             /\ ZoneGetFixtureDef(Get(zone'.obj)) = ZoneGetFixtureDef(TheZone)
       /\ (lastCall'.op = "SimRobot.update" /\ ~lastCall'.threw) =>
             /\ RobotSynced'
             /\ world'.bodies[RobotGuid].position = world.bodies[RobotGuid].position
             /\ world'.bodies[RobotGuid].angle = world.bodies[RobotGuid].angle
             /\ RobotGetBodySpecs(Get(robot'.obj)) = RobotGetBodySpecs(TheRobot)
             /\ RobotGetFixtureDef(Get(robot'.obj)) = RobotGetFixtureDef(TheRobot)]_vars

\* A zone whose body was moved away from where it was built, then updated.
C8_Witness ==
    /\ HasZone
    /\ lastCall.op = "Zone.update" /\ ~lastCall.threw
    /\ world.bodies[ZoneGuid].position = Vec2(Num(-2), Num(1))
    /\ ZoneGetBodySpecs(TheZone).position # world.bodies[ZoneGuid].position
    /\ Get(TheZone.mesh).position = Vec3(Num(-2), Zero, Num(1))

\* s is the first Len(s) elements of t.
IsPrefix(s, t) == Len(s) <= Len(t) /\ SubSeq(t, 1, Len(s)) = s

\* The steps of a SimRobot.update over n wheels, in the order claimed.
ClaimedOrder(n) ==
    <<TraceStep("drivetrain.update", 0)>>
    \o [i \in 1..n |-> TraceStep("child.update", i)]
    \o <<TraceStep("mesh.write", 0)>>

\* C9: the children are the drivetrain's wheels in the order they were added,
\* and a SimRobot.update runs the drivetrain's update, then each child's
\* update once in that order, then the chassis mesh write: all of them when
\* the call completes, and a non-empty beginning of them when a child or the
\* chassis has no body yet and the call throws.
C9_UpdateOrder ==
    (HasRobot /\ lastCall.op = "SimRobot.update") =>
        LET n == Len(TheRobot.drivetrain.wheelObjects)
        IN  /\ TheRobot.children = [i \in 1..n |-> WheelGuid(i)]
            /\ TheRobot.children = TheRobot.drivetrain.wheelObjects
            /\ lastCall.trace # <<>>
            /\ IsPrefix(lastCall.trace, ClaimedOrder(n))
            /\ ~lastCall.threw => lastCall.trace = ClaimedOrder(n)
            /\ lastCall.threw => lastCall.trace # ClaimedOrder(n)

\* A completed update of a robot with two wheels: four steps.
C9_Witness ==
    /\ HasRobot
    /\ lastCall.op = "SimRobot.update" /\ ~lastCall.threw
    /\ Len(lastCall.trace) = 4
    /\ lastCall.trace[3] = TraceStep("child.update", 2)

\* C10: right after construction the visual footprint of a zone of any shape
\* is centred on the body spec's position (px, py), that is at world
\* x = px, y = 0, z = py.
C10_VisualCentredOnBody ==
    (HasZone /\ lastCall.op = "makeZone") =>
        LET p == ZoneGetBodySpecs(TheZone).position
        IN  FootprintCentre(Get(TheZone.mesh)) = Vec3(p.x, Zero, p.y)

====
